---- MODULE Spec2Model ----
(***************************************************************************)
(* Market signal synthesis: the decision fusion step                       *)
(* (generateTradingRecommendation), the sentiment normalizer               *)
(* (analyzeMarketSentiment) and the indicator calculator / trend           *)
(* classifier (performTechnicalAnalysis and its helpers).                  *)
(*                                                                         *)
(* JavaScript strings on which the code calls String.prototype.includes    *)
(* are sequences of one-character strings, so that "includes" is a real    *)
(* substring test.  A missing property reads as the value undefined.       *)
(***************************************************************************)
EXTENDS Integers, Sequences, FiniteSets, TLC

VARIABLES
    technicalData,            \* argument of generateTradingRecommendation
    sentimentData,            \* argument of generateTradingRecommendation
    recommendationResponse,   \* its TradingRecommendationResponse
    fngResponse,              \* what fetch of the fear & greed index resolved to
    marketSentimentResponse,  \* MarketSentimentResponse of analyzeMarketSentiment
    rsiPrices,                \* argument prices of a call of calculateRSI
    rsiPeriod,                \* argument period of that call
    rsiResult,                \* what the call returned
    timeframe,                \* argument timeframe of performTechnicalAnalysis
    klinesResponse,           \* what fetch of the Binance klines resolved to
    analysisResponse,         \* TechnicalAnalysisResponse of performTechnicalAnalysis
    smaPrices,                \* argument prices of a call of calculateSMA
    smaPeriod,                \* argument period of that call
    smaResult,                \* what the call returned
    emaPrices,                \* argument prices of a call of calculateEMA
    emaPeriod,                \* argument period of that call
    emaResult,                \* what the call returned
    macdPrices,               \* argument prices of a call of calculateMACD
    macdResult,               \* what the call returned
    socket,                   \* WebSocketService.socket: index in sockets, or NoSocket
    reconnectAttempts,        \* WebSocketService.reconnectAttempts
    reconnectTimeout,         \* WebSocketService.reconnectTimeout: a timer handle, or NoTimeout
    sockets,                  \* readyState of every WebSocket created by connect
    timers,                   \* handles of the timers that are pending
    timersCreated,            \* number of setTimeout calls so far
    connectCalled,            \* the agent's start-up has called connect
    disconnectCalled,         \* disconnect has been called
    running                   \* the process has not exited

fusionVars ==
    <<technicalData, sentimentData, recommendationResponse>>

sentimentVars ==
    <<fngResponse, marketSentimentResponse>>

rsiVars ==
    <<rsiPrices, rsiPeriod, rsiResult>>

analysisVars ==
    <<timeframe, klinesResponse, analysisResponse>>

smaVars ==
    <<smaPrices, smaPeriod, smaResult>>

emaVars ==
    <<emaPrices, emaPeriod, emaResult>>

macdVars ==
    <<macdPrices, macdResult>>

wsVars ==
    <<socket, reconnectAttempts, reconnectTimeout, sockets, timers,
      timersCreated, connectCalled, disconnectCalled, running>>

vars ==
    <<technicalData, sentimentData, recommendationResponse,
      fngResponse, marketSentimentResponse,
      rsiPrices, rsiPeriod, rsiResult,
      timeframe, klinesResponse, analysisResponse,
      smaPrices, smaPeriod, smaResult,
      emaPrices, emaPeriod, emaResult,
      macdPrices, macdResult,
      socket, reconnectAttempts, reconnectTimeout, sockets, timers,
      timersCreated, connectCalled, disconnectCalled, running>>

----------------------------------------------------------------------------
(* JavaScript values *)

undefined ==
    [type |-> "undefined"]

null ==
    [type |-> "null"]

Str(chars) ==
    [type |-> "string", chars |-> chars]

\* obj.f : a property that is absent reads as undefined
Get(obj, f) ==
    IF f \in DOMAIN obj THEN obj[f] ELSE undefined

\* an object literal written without the properties in missing
Omit(obj, missing) ==
    [k \in DOMAIN obj \ missing |-> obj[k]]

\* String.prototype.includes on character sequences
includes(s, sub) ==
    \E i \in 0..(Len(s) - Len(sub)) : SubSeq(s, i + 1, i + Len(sub)) = sub

\* response of a call that has not been made yet
NotCalled ==
    [status |-> "none"]

----------------------------------------------------------------------------
(* JavaScript numbers.  A number is an exact fraction n/d in lowest terms,   *)
(* d > 0; d = 0 encodes the non-finite values: 0/0 is NaN, 1/0 is Infinity   *)
(* and -1/0 is -Infinity.  Rounding of IEEE doubles is not modelled.         *)

Num(k) ==
    [n |-> k, d |-> 1]

NaN ==
    [n |-> 0, d |-> 0]

IsNaN(a) ==
    a.n = 0 /\ a.d = 0

IsFinite(a) ==
    a.d # 0

\* a < b for finite fractions, by integer parts and then by the reciprocals
\* of the remainders, so that no product of a numerator and a denominator
\* is formed
RECURSIVE FracLt(_, _, _, _)
FracLt(an, ad, bn, bd) ==
    LET fa == an \div ad
        fb == bn \div bd
        ra == an % ad
        rb == bn % bd
    IN  IF fa # fb THEN fa < fb
        ELSE IF rb = 0 THEN FALSE
        ELSE IF ra = 0 THEN TRUE
        ELSE FracLt(bd, rb, ad, ra)

\* a < b, a <= b, a > b, a >= b: every comparison with NaN is false
Lt(a, b) ==
    /\ ~IsNaN(a)
    /\ ~IsNaN(b)
    /\ IF IsFinite(a) /\ IsFinite(b) THEN FracLt(a.n, a.d, b.n, b.d)
       ELSE a.n * b.d < b.n * a.d

Le(a, b) ==
    ~IsNaN(a) /\ ~IsNaN(b) /\ (a = b \/ Lt(a, b))

Gt(a, b) ==
    Lt(b, a)

Ge(a, b) ==
    Le(b, a)

----------------------------------------------------------------------------
(* Decimal strings *)

Digits ==
    <<"0", "1", "2", "3", "4", "5", "6", "7", "8", "9">>

IsDigit(c) ==
    \E i \in 1..10 : Digits[i] = c

DigitVal(c) ==
    (CHOOSE i \in 1..10 : Digits[i] = c) - 1

\* the decimal numeral of a natural number, as the API sends it
RECURSIVE ToStr(_)
ToStr(k) ==
    IF k < 10 THEN <<Digits[k + 1]>>
    ELSE Append(ToStr(k \div 10), Digits[(k % 10) + 1])

RECURSIVE SkipSpaces(_)
SkipSpaces(s) ==
    IF s # <<>> /\ Head(s) = " " THEN SkipSpaces(Tail(s)) ELSE s

\* value of the longest prefix of digits of s, acc being the value so far
RECURSIVE DigitsValue(_, _)
DigitsValue(s, acc) ==
    IF s # <<>> /\ IsDigit(Head(s))
    THEN DigitsValue(Tail(s), acc * 10 + DigitVal(Head(s)))
    ELSE acc

\* parseInt(s) in radix 10: leading blanks, an optional sign, then digits up
\* to the first other character; NaN when there is no digit
parseInt(s) ==
    LET t == SkipSpaces(s)
        signed == t # <<>> /\ Head(t) \in {"+", "-"}
        u == IF signed THEN Tail(t) ELSE t
    IN  IF u = <<>> \/ ~IsDigit(Head(u)) THEN NaN
        ELSE IF signed /\ Head(t) = "-" THEN Num(0 - DigitsValue(u, 0))
        ELSE Num(DigitsValue(u, 0))

----------------------------------------------------------------------------
(* Arithmetic on JavaScript numbers *)

Abs(k) ==
    IF k < 0 THEN 0 - k ELSE k

RECURSIVE GCD(_, _)
GCD(a, b) ==
    IF b = 0 THEN a ELSE GCD(b, a % b)

Sign(k) ==
    IF k > 0 THEN 1 ELSE IF k < 0 THEN 0 - 1 ELSE 0

\* the number n/d: lowest terms, positive denominator; x/0 is +-Infinity or NaN
Norm(n, d) ==
    IF d = 0 THEN [n |-> Sign(n), d |-> 0]
    ELSE LET g == GCD(Abs(n), Abs(d))
         IN  [n |-> Sign(d) * (n \div g), d |-> Abs(d) \div g]

NumAdd(a, b) ==
    IF IsNaN(a) \/ IsNaN(b) THEN NaN
    ELSE IF ~IsFinite(a) /\ ~IsFinite(b) THEN (IF a.n = b.n THEN a ELSE NaN)
    ELSE IF ~IsFinite(a) THEN a
    ELSE IF ~IsFinite(b) THEN b
    ELSE LET g == GCD(a.d, b.d)
         IN  Norm(a.n * (b.d \div g) + b.n * (a.d \div g), (a.d \div g) * b.d)

NumNeg(a) ==
    [n |-> 0 - a.n, d |-> a.d]

NumSub(a, b) ==
    NumAdd(a, NumNeg(b))

NumMul(a, b) ==
    IF ~IsFinite(a) \/ ~IsFinite(b) THEN Norm(a.n * b.n, 0)
    ELSE LET g1 == GCD(Abs(a.n), b.d)
             g2 == GCD(Abs(b.n), a.d)
         IN  Norm((a.n \div g1) * (b.n \div g2), (a.d \div g2) * (b.d \div g1))

NumDiv(a, b) ==
    IF ~IsFinite(a) \/ ~IsFinite(b) \/ b.n = 0
    THEN (IF b.n < 0 THEN Norm(0 - (a.n * b.d), 0 - (a.d * b.n))
          ELSE Norm(a.n * b.d, a.d * b.n))
    ELSE NumMul(a, Norm(b.d, b.n))

\* Math.abs
NumAbs(a) ==
    [n |-> Abs(a.n), d |-> a.d]

\* Math.min on integers
Min(a, b) ==
    IF a < b THEN a ELSE b

\* Array.prototype.slice(start): from index start, counted from the end
\* when start is negative
Slice(seq, start) ==
    LET from == IF start < 0 THEN (IF Len(seq) + start < 0 THEN 0 ELSE Len(seq) + start)
                ELSE Min(start, Len(seq))
    IN  SubSeq(seq, from + 1, Len(seq))

\* reduce((a, b) => a + b, acc) over seq[lo..hi], left to right.  The range
\* is halved to keep the evaluation shallow; once the sum is NaN it stays NaN.
RECURSIVE SumRange(_, _, _, _)
SumRange(seq, acc, lo, hi) ==
    IF lo > hi THEN acc
    ELSE IF lo = hi THEN NumAdd(acc, seq[lo])
    ELSE LET mid == (lo + hi) \div 2
             left == SumRange(seq, acc, lo, mid)
         IN  IF IsNaN(left) THEN NaN ELSE SumRange(seq, left, mid + 1, hi)

Sum(seq) ==
    SumRange(seq, Num(0), 1, Len(seq))

\* value of the digits of s read as a fraction 0.d1d2..., stopping at the
\* first other character
RECURSIVE FractionValue(_, _)
FractionValue(s, scale) ==
    IF s # <<>> /\ IsDigit(Head(s))
    THEN NumAdd(Norm(DigitVal(Head(s)), scale * 10), FractionValue(Tail(s), scale * 10))
    ELSE Num(0)

RECURSIVE SkipDigits(_)
SkipDigits(s) ==
    IF s # <<>> /\ IsDigit(Head(s)) THEN SkipDigits(Tail(s)) ELSE s

\* parseFloat(s) on plain decimal numerals: leading blanks, an optional sign,
\* digits, an optional fraction; NaN when no numeral starts the string
parseFloat(s) ==
    LET t == SkipSpaces(s)
        signed == t # <<>> /\ Head(t) \in {"+", "-"}
        u == IF signed THEN Tail(t) ELSE t
        rest == SkipDigits(u)
        hasInt == u # <<>> /\ IsDigit(Head(u))
        hasFrac == rest # <<>> /\ Head(rest) = "."
                   /\ Len(rest) > 1 /\ IsDigit(rest[2])
        magnitude == NumAdd(Num(DigitsValue(u, 0)),
                            IF hasFrac THEN FractionValue(Tail(rest), 1) ELSE Num(0))
    IN  IF ~hasInt /\ ~hasFrac THEN NaN
        ELSE IF signed /\ Head(t) = "-" THEN NumNeg(magnitude)
        ELSE magnitude

----------------------------------------------------------------------------
(* String literals of the source *)

S_strongly_bullish ==
    <<"s", "t", "r", "o", "n", "g", "l", "y", " ", "b", "u", "l", "l", "i", "s", "h">>
S_bullish ==
    <<"b", "u", "l", "l", "i", "s", "h">>
S_neutral ==
    <<"n", "e", "u", "t", "r", "a", "l">>
S_bearish ==
    <<"b", "e", "a", "r", "i", "s", "h">>
S_strongly_bearish ==
    <<"s", "t", "r", "o", "n", "g", "l", "y", " ", "b", "e", "a", "r", "i", "s", "h">>
S_overbought ==
    <<"o", "v", "e", "r", "b", "o", "u", "g", "h", "t">>
S_oversold ==
    <<"o", "v", "e", "r", "s", "o", "l", "d">>
S_strongly ==
    <<"s", "t", "r", "o", "n", "g", "l", "y">>
S_extremely ==
    <<"e", "x", "t", "r", "e", "m", "e", "l", "y">>
S_extremely_bearish_oversold ==
    <<"e", "x", "t", "r", "e", "m", "e", "l", "y", " ", "b", "e", "a", "r", "i", "s", "h", " ", "(", "p", "o", "t", "e", "n", "t", "i", "a", "l", "l", "y", " ", "o", "v", "e", "r", "s", "o", "l", "d", ")">>
S_extremely_bullish_overbought ==
    <<"e", "x", "t", "r", "e", "m", "e", "l", "y", " ", "b", "u", "l", "l", "i", "s", "h", " ", "(", "p", "o", "t", "e", "n", "t", "i", "a", "l", "l", "y", " ", "o", "v", "e", "r", "b", "o", "u", "g", "h", "t", ")">>

----------------------------------------------------------------------------
(* generateTradingRecommendation, trading-recommendation.ts *)

\* lines 99-110: base direction from the trend, then the RSI override
technicalSignalOf_NoOverride(trend, rsiSignal) ==
    IF trend = Str(S_strongly_bullish) \/ trend = Str(S_bullish) THEN "LONG"
    ELSE IF trend = Str(S_strongly_bearish) \/ trend = Str(S_bearish) THEN "SHORT"
    ELSE "LONG"

technicalSignalOf_BearishLong(trend, rsiSignal) ==
    LET base == IF trend = Str(S_strongly_bullish) \/ trend = Str(S_bullish)
                THEN "LONG"
                ELSE IF trend = Str(S_strongly_bearish)
                     THEN "SHORT"
                     ELSE "LONG"
    IN  IF rsiSignal = Str(S_overbought) /\ base = "LONG" THEN "SHORT"
        ELSE IF rsiSignal = Str(S_oversold) /\ base = "SHORT" THEN "LONG"
        ELSE base

technicalSignalOf(trend, rsiSignal) ==
    LET base == IF trend = Str(S_strongly_bullish) \/ trend = Str(S_bullish)
                THEN "LONG"
                ELSE IF trend = Str(S_strongly_bearish) \/ trend = Str(S_bearish)
                     THEN "SHORT"
                     ELSE "LONG"
    IN  IF rsiSignal = Str(S_overbought) /\ base = "LONG" THEN "SHORT"
        ELSE IF rsiSignal = Str(S_oversold) /\ base = "SHORT" THEN "LONG"
        ELSE base

\* lines 112-123: direction of the sentiment interpretation
sentimentSignalOf_NoFlip(marketSentiment) ==
    IF includes(marketSentiment.chars, S_bullish) THEN "LONG"
    ELSE IF includes(marketSentiment.chars, S_bearish) THEN "SHORT"
    ELSE "LONG"

sentimentSignalOf(marketSentiment) ==
    IF includes(marketSentiment.chars, S_bullish)
    THEN IF includes(marketSentiment.chars, S_extremely)
            /\ includes(marketSentiment.chars, S_overbought)
         THEN "SHORT"
         ELSE "LONG"
    ELSE IF includes(marketSentiment.chars, S_bearish)
         THEN IF includes(marketSentiment.chars, S_extremely)
                 /\ includes(marketSentiment.chars, S_oversold)
              THEN "LONG"
              ELSE "SHORT"
         ELSE "LONG"

\* lines 125-132: both branches assign the technical direction
finalSignalOf_SentimentWins(technicalSignal, sentimentSignal) ==
    IF technicalSignal = sentimentSignal THEN technicalSignal ELSE sentimentSignal

finalSignalOf(technicalSignal, sentimentSignal) ==
    IF technicalSignal = sentimentSignal THEN technicalSignal ELSE technicalSignal

\* lines 134-139
recommendedTimeframeOf_TrendOnly(finalSignal, trend) ==
    IF trend = Str(S_strongly_bullish) THEN "long-term"
    ELSE IF trend = Str(S_strongly_bearish) THEN "short-term"
    ELSE "medium-term"

recommendedTimeframeOf(finalSignal, trend) ==
    IF finalSignal = "LONG" /\ trend = Str(S_strongly_bullish) THEN "long-term"
    ELSE IF finalSignal = "SHORT" /\ trend = Str(S_strongly_bearish) THEN "short-term"
    ELSE "medium-term"

\* lines 141-146; evaluated only where trend.includes does not throw
confidenceLevelOf_NoLow(technicalSignal, sentimentSignal, trend, marketSentiment) ==
    IF technicalSignal = sentimentSignal
       /\ (includes(trend.chars, S_strongly)
           \/ includes(marketSentiment.chars, S_extremely))
    THEN "high"
    ELSE "medium"

confidenceLevelOf(technicalSignal, sentimentSignal, trend, marketSentiment) ==
    IF technicalSignal = sentimentSignal
       /\ (includes(trend.chars, S_strongly)
           \/ includes(marketSentiment.chars, S_extremely))
    THEN "high"
    ELSE IF technicalSignal # sentimentSignal THEN "low"
    ELSE "medium"

\* lines 184-190: the catch block
recommendationError ==
    [status |-> "error", message |-> "TypeError"]

\* lines 88-191.  Each IF ... THEN recommendationError is a place where the
\* body of the try throws a TypeError (a property read on undefined).
generateTradingRecommendation(td, sd) ==
    LET technicalIndicators == Get(td, "technicalIndicators")
        marketSentimentData == Get(sd, "marketSentimentData")
    IN
    IF technicalIndicators = undefined THEN recommendationError
    ELSE IF marketSentimentData = undefined THEN recommendationError
    ELSE
    LET trend == Get(technicalIndicators, "trend")
        rsiSignal == Get(technicalIndicators, "rsiSignal")
        marketSentiment == Get(marketSentimentData, "interpretation")
        technicalSignal == technicalSignalOf(trend, rsiSignal)
    IN
    IF marketSentiment = undefined THEN recommendationError
    ELSE
    LET sentimentSignal == sentimentSignalOf(marketSentiment)
        finalSignal == finalSignalOf(technicalSignal, sentimentSignal)
        recommendedTimeframe == recommendedTimeframeOf(finalSignal, trend)
    IN
    IF technicalSignal = sentimentSignal /\ trend = undefined
    THEN recommendationError
    ELSE
    LET confidenceLevel ==
            confidenceLevelOf(technicalSignal, sentimentSignal, trend, marketSentiment)
        sma == Get(technicalIndicators, "sma")
        globalFearGreedIndex == Get(marketSentimentData, "globalFearGreedIndex")
    IN
    IF sma = undefined \/ globalFearGreedIndex = undefined
    THEN recommendationError
    ELSE
    [status |-> "success",
     symbol |-> Get(td, "symbol"),
     recommendation |->
        [signal |-> finalSignal,
         confidenceLevel |-> confidenceLevel,
         recommendedTimeframe |-> recommendedTimeframe,
         technicalAnalysisSignal |-> technicalSignal,
         marketSentimentSignal |-> sentimentSignal],
     supportingData |->
        [technical |->
            [trend |-> trend,
             rsi |-> Get(technicalIndicators, "rsi"),
             rsiSignal |-> rsiSignal,
             sma |-> sma],
         sentiment |->
            [marketSentiment |-> marketSentiment,
             fearGreedIndex |-> Get(globalFearGreedIndex, "value"),
             fearGreedDescription |-> Get(globalFearGreedIndex, "description")]]]

----------------------------------------------------------------------------
(* analyzeMarketSentiment, market-sentiment.ts *)

\* lines 62-73: the band of the index
fearGreedDescriptionOf_Exclusive25(fearGreedIndex) ==
    IF Ge(fearGreedIndex, Num(0)) /\ Lt(fearGreedIndex, Num(25)) THEN "Extreme Fear"
    ELSE IF Gt(fearGreedIndex, Num(25)) /\ Le(fearGreedIndex, Num(45)) THEN "Fear"
    ELSE IF Gt(fearGreedIndex, Num(45)) /\ Le(fearGreedIndex, Num(55)) THEN "Neutral"
    ELSE IF Gt(fearGreedIndex, Num(55)) /\ Le(fearGreedIndex, Num(75)) THEN "Greed"
    ELSE IF Gt(fearGreedIndex, Num(75)) /\ Le(fearGreedIndex, Num(100)) THEN "Extreme Greed"
    ELSE "Neutral"

fearGreedDescriptionOf(fearGreedIndex) ==
    IF Ge(fearGreedIndex, Num(0)) /\ Le(fearGreedIndex, Num(25)) THEN "Extreme Fear"
    ELSE IF Gt(fearGreedIndex, Num(25)) /\ Le(fearGreedIndex, Num(45)) THEN "Fear"
    ELSE IF Gt(fearGreedIndex, Num(45)) /\ Le(fearGreedIndex, Num(55)) THEN "Neutral"
    ELSE IF Gt(fearGreedIndex, Num(55)) /\ Le(fearGreedIndex, Num(75)) THEN "Greed"
    ELSE IF Gt(fearGreedIndex, Num(75)) /\ Le(fearGreedIndex, Num(100)) THEN "Extreme Greed"
    ELSE "Neutral"

\* lines 75-84: the interpretation of the band
marketSentimentOf(fearGreedDescription) ==
    IF fearGreedDescription = "Extreme Fear" THEN Str(S_extremely_bearish_oversold)
    ELSE IF fearGreedDescription = "Fear" THEN Str(S_bearish)
    ELSE IF fearGreedDescription = "Greed" THEN Str(S_bullish)
    ELSE IF fearGreedDescription = "Extreme Greed"
         THEN Str(S_extremely_bullish_overbought)
    ELSE Str(S_neutral)

\* lines 38-108; response is what fetch resolved to
analyzeMarketSentiment(symbol, response) ==
    IF ~response.ok
    THEN [status |-> "error", symbol |-> symbol,
          message |-> "Failed to fetch market sentiment data"]
    ELSE
    LET data == response.json
    IN
    IF "data" \notin DOMAIN data \/ Len(data.data) = 0
    THEN [status |-> "error", symbol |-> symbol,
          message |-> "No market sentiment data available"]
    ELSE
    LET fearGreedIndex == parseInt(data.data[1].value)
        fearGreedDescription == fearGreedDescriptionOf(fearGreedIndex)
        marketSentiment == marketSentimentOf(fearGreedDescription)
    IN
    [status |-> "success",
     symbol |-> symbol,
     marketSentimentData |->
        [globalFearGreedIndex |->
            [value |-> fearGreedIndex,
             description |-> fearGreedDescription,
             classification |-> data.data[1].value_classification],
         interpretation |-> marketSentiment,
         timestamp |-> data.data[1].timestamp,
         timeUpdated |-> data.data[1].time_until_update]]

----------------------------------------------------------------------------
(* Indicator calculator and trend classifier, technical-analysis.ts *)

\* the sum of the whole series divided by the period
calculateSMA_WholeSeries(prices, period) ==
    IF Len(prices) < period THEN null
    ELSE NumDiv(Sum(prices), Num(period))

\* lines 65-72
calculateSMA(prices, period) ==
    IF Len(prices) < period THEN null
    ELSE NumDiv(Sum(Slice(prices, Len(prices) - period)), Num(period))

\* the array with the elements f[1], ..., f[Len(f)], each computed once
ArrayOf(f) ==
    SubSeq(f, 1, Len(f))

\* lines 115-118: changes[i] = prices[i] - prices[i - 1]
Changes(prices) ==
    ArrayOf([i \in 1..(Len(prices) - 1) |-> NumSub(prices[i + 1], prices[i])])

\* line 120
Gains(changes) ==
    ArrayOf([i \in 1..Len(changes) |->
                IF Gt(changes[i], Num(0)) THEN changes[i] ELSE Num(0)])

\* line 121
Losses(changes) ==
    ArrayOf([i \in 1..Len(changes) |->
                IF Lt(changes[i], Num(0)) THEN NumAbs(changes[i]) ELSE Num(0)])

\* lines 110-134
calculateRSI_NoZeroLossCase(prices, period) ==
    IF Len(prices) <= period THEN null
    ELSE
    LET changes == Changes(prices)
        avgGain == NumDiv(Sum(Slice(Gains(changes), 0 - period)), Num(period))
        avgLoss == NumDiv(Sum(Slice(Losses(changes), 0 - period)), Num(period))
        rs == NumDiv(avgGain, avgLoss)
    IN  NumSub(Num(100), NumDiv(Num(100), NumAdd(Num(1), rs)))

calculateRSI(prices, period) ==
    IF Len(prices) <= period THEN null
    ELSE
    LET changes == Changes(prices)
        avgGain == NumDiv(Sum(Slice(Gains(changes), 0 - period)), Num(period))
        avgLoss == NumDiv(Sum(Slice(Losses(changes), 0 - period)), Num(period))
        rs == NumDiv(avgGain, avgLoss)
    IN  IF avgLoss = Num(0) THEN Num(100)
        ELSE NumSub(Num(100), NumDiv(Num(100), NumAdd(Num(1), rs)))

\* line 110: the default period of calculateRSI
RSI_DEFAULT_PERIOD ==
    14

\* a missing average counted as not exceeded
Above_MissingIsBelow(currentPrice, average) ==
    average # null /\ Gt(currentPrice, average)

\* lines 206-208: currentPrice > (sma ?? 0)
Above(currentPrice, average) ==
    Gt(currentPrice, IF average = null THEN Num(0) ELSE average)

\* lines 210-219
trendOf(aboveSMA7, aboveSMA25, aboveSMA99) ==
    IF aboveSMA7 /\ aboveSMA25 /\ aboveSMA99 THEN Str(S_strongly_bullish)
    ELSE IF aboveSMA7 /\ aboveSMA25 THEN Str(S_bullish)
    ELSE IF ~aboveSMA7 /\ ~aboveSMA25 /\ ~aboveSMA99 THEN Str(S_strongly_bearish)
    ELSE IF ~aboveSMA7 /\ ~aboveSMA25 THEN Str(S_bearish)
    ELSE Str(S_neutral)

\* lines 221-228
rsiSignalOf_Inclusive(rsi) ==
    IF rsi # null /\ Ge(rsi, Num(70)) THEN Str(S_overbought)
    ELSE IF rsi # null /\ Le(rsi, Num(30)) THEN Str(S_oversold)
    ELSE Str(S_neutral)

rsiSignalOf(rsi) ==
    IF rsi # null /\ Gt(rsi, Num(70)) THEN Str(S_overbought)
    ELSE IF rsi # null /\ Lt(rsi, Num(30)) THEN Str(S_oversold)
    ELSE Str(S_neutral)

\* lines 82-84: the loop of calculateEMA over prices[lo..hi] (1-based), left
\* to right from the value ema.  The range is halved to keep the evaluation
\* shallow; once the average is NaN it stays NaN.
RECURSIVE EmaRange(_, _, _, _, _)
EmaRange(prices, k, ema, lo, hi) ==
    IF lo > hi THEN ema
    ELSE IF lo = hi
         THEN NumAdd(NumMul(prices[lo], k), NumMul(ema, NumSub(Num(1), k)))
    ELSE LET mid == (lo + hi) \div 2
             left == EmaRange(prices, k, ema, lo, mid)
         IN  IF IsNaN(left) THEN NaN ELSE EmaRange(prices, k, left, mid + 1, hi)

\* the recurrence run over the last period closes only
calculateEMA_LastPeriod(prices, period) ==
    IF Len(prices) < period THEN null
    ELSE EmaRange(prices, NumDiv(Num(2), Num(period + 1)),
                  prices[Len(prices) - period + 1],
                  Len(prices) - period + 2, Len(prices))

\* lines 74-87
calculateEMA(prices, period) ==
    IF Len(prices) < period THEN null
    ELSE EmaRange(prices, NumDiv(Num(2), Num(period + 1)), prices[1], 2, Len(prices))

\* signal || 0 at line 105: null, NaN and 0 are falsy
OrZero(x) ==
    IF x = null THEN Num(0) ELSE IF IsNaN(x) THEN Num(0) ELSE x

\* the histogram taken as signal - macd
calculateMACD_HistogramReversed(prices) ==
    IF Len(prices) < 26
    THEN [macd |-> null, signal |-> null, histogram |-> null]
    ELSE
    LET ema12 == calculateEMA(prices, 12)
        ema26 == calculateEMA(prices, 26)
    IN
    IF ema12 = null \/ ema26 = null
    THEN [macd |-> null, signal |-> null, histogram |-> null]
    ELSE
    LET macd == NumSub(ema12, ema26)
        signal == calculateEMA([i \in 1..9 |-> IF i <= 8 THEN Num(0) ELSE macd], 9)
        histogram == NumSub(OrZero(signal), macd)
    IN  [macd |-> macd, signal |-> signal, histogram |-> histogram]

\* the signal line taken from the main-line value alone
calculateMACD_SignalOfOneValue(prices) ==
    IF Len(prices) < 26
    THEN [macd |-> null, signal |-> null, histogram |-> null]
    ELSE
    LET ema12 == calculateEMA(prices, 12)
        ema26 == calculateEMA(prices, 26)
    IN
    IF ema12 = null \/ ema26 = null
    THEN [macd |-> null, signal |-> null, histogram |-> null]
    ELSE
    LET macd == NumSub(ema12, ema26)
        signal == calculateEMA(<<macd>>, 9)
        histogram == NumSub(macd, OrZero(signal))
    IN  [macd |-> macd, signal |-> signal, histogram |-> histogram]

\* zeros in place of null for a series of fewer than 26 closes
calculateMACD_ZeroPlaceholder(prices) ==
    IF Len(prices) < 26
    THEN [macd |-> Num(0), signal |-> Num(0), histogram |-> Num(0)]
    ELSE
    LET ema12 == calculateEMA(prices, 12)
        ema26 == calculateEMA(prices, 26)
    IN
    IF ema12 = null \/ ema26 = null
    THEN [macd |-> null, signal |-> null, histogram |-> null]
    ELSE
    LET macd == NumSub(ema12, ema26)
        signal == calculateEMA([i \in 1..9 |-> IF i <= 8 THEN Num(0) ELSE macd], 9)
        histogram == NumSub(macd, OrZero(signal))
    IN  [macd |-> macd, signal |-> signal, histogram |-> histogram]

\* lines 89-108
calculateMACD(prices) ==
    IF Len(prices) < 26
    THEN [macd |-> null, signal |-> null, histogram |-> null]
    ELSE
    LET ema12 == calculateEMA(prices, 12)
        ema26 == calculateEMA(prices, 26)
    IN
    IF ema12 = null \/ ema26 = null
    THEN [macd |-> null, signal |-> null, histogram |-> null]
    ELSE
    LET macd == NumSub(ema12, ema26)
        signal == calculateEMA([i \in 1..9 |-> IF i <= 8 THEN Num(0) ELSE macd], 9)
        histogram == NumSub(macd, OrZero(signal))
    IN  [macd |-> macd, signal |-> signal, histogram |-> histogram]

\* lines 263-274
shortTermTrendOf(aboveSMA5, aboveSMA10, aboveEMA9, aboveEMA21) ==
    IF aboveSMA5 /\ aboveSMA10 /\ aboveEMA9 /\ aboveEMA21
    THEN Str(S_strongly_bullish)
    ELSE IF (aboveSMA5 /\ aboveSMA10) \/ (aboveEMA9 /\ aboveEMA21)
    THEN Str(S_bullish)
    ELSE IF ~aboveSMA5 /\ ~aboveSMA10 /\ ~aboveEMA9 /\ ~aboveEMA21
    THEN Str(S_strongly_bearish)
    ELSE IF (~aboveSMA5 /\ ~aboveSMA10) \/ (~aboveEMA9 /\ ~aboveEMA21)
    THEN Str(S_bearish)
    ELSE Str(S_neutral)

\* the classification without the floor of 0.01% of the price
macdSignalOf_NoFloor(m, currentPrice) ==
    IF m.histogram # null /\ m.signal # null /\ m.macd # null
    THEN IF Gt(m.histogram, Num(0))
         THEN (IF Gt(m.macd, Num(0)) THEN Str(S_strongly_bullish) ELSE Str(S_bullish))
         ELSE IF Lt(m.histogram, Num(0))
         THEN (IF Lt(m.macd, Num(0)) THEN Str(S_strongly_bearish) ELSE Str(S_bearish))
         ELSE Str(S_neutral)
    ELSE Str(S_neutral)

\* lines 264 and 276-293
macdSignalOf(m, currentPrice) ==
    LET floor == NumMul(Norm(1, 10000), currentPrice)
    IN
    IF m.histogram # null /\ m.signal # null /\ m.macd # null
    THEN IF Gt(m.histogram, Num(0)) /\ Gt(m.histogram, floor)
         THEN (IF Gt(m.macd, Num(0)) THEN Str(S_strongly_bullish) ELSE Str(S_bullish))
         ELSE IF Lt(m.histogram, Num(0)) /\ Gt(NumAbs(m.histogram), floor)
         THEN (IF Lt(m.macd, Num(0)) THEN Str(S_strongly_bearish) ELSE Str(S_bearish))
         ELSE Str(S_neutral)
    ELSE Str(S_neutral)

\* lines 295-315
recommendationOf(tf, shortTermTrend, macdSignal, shortTermRSI) ==
    IF tf = "1m"
    THEN IF \/ (includes(shortTermTrend.chars, S_bullish)
                /\ includes(macdSignal.chars, S_bullish))
            \/ (shortTermRSI # null /\ Lt(shortTermRSI, Num(30))
                /\ includes(shortTermTrend.chars, S_bullish))
         THEN "LONG"
         ELSE IF \/ (includes(shortTermTrend.chars, S_bearish)
                     /\ includes(macdSignal.chars, S_bearish))
                 \/ (shortTermRSI # null /\ Gt(shortTermRSI, Num(70))
                     /\ includes(shortTermTrend.chars, S_bearish))
         THEN "SHORT"
         ELSE "neutral"
    ELSE "neutral"

\* line 250: the timeframes that get the short-term block
IntradayTimeframes ==
    {"1m", "5m", "15m", "hourly"}

\* lines 250-333: the short-term indicators and the recommendation
shortTermBlock(tf, prices, currentPrice) ==
    LET shortTermRSI == calculateRSI(prices, 7)
        sma5 == calculateSMA(prices, 5)
        sma10 == calculateSMA(prices, 10)
        ema9 == calculateEMA(prices, 9)
        ema21 == calculateEMA(prices, 21)
        m == calculateMACD(prices)
        aboveSMA5 == Above(currentPrice, sma5)
        aboveSMA10 == Above(currentPrice, sma10)
        aboveEMA9 == Above(currentPrice, ema9)
        aboveEMA21 == Above(currentPrice, ema21)
        shortTermTrend == shortTermTrendOf(aboveSMA5, aboveSMA10, aboveEMA9, aboveEMA21)
        macdSignal == macdSignalOf(m, currentPrice)
    IN  [shortTerm |->
            [sma5 |-> sma5, sma10 |-> sma10, ema9 |-> ema9, ema21 |-> ema21,
             aboveSMA5 |-> aboveSMA5, aboveSMA10 |-> aboveSMA10,
             aboveEMA9 |-> aboveEMA9, aboveEMA21 |-> aboveEMA21,
             macdSignal |-> macdSignal, shortTermTrend |-> shortTermTrend],
         recommendation |->
            recommendationOf(tf, shortTermTrend, macdSignal, shortTermRSI)]

\* lines 136-343.  response is what fetch resolved to; only the close
\* (kline[4]) of a kline is kept.  The interval and the start time computed at
\* lines 142-171 only select what is fetched.
performTechnicalAnalysis(symbol, tf, response) ==
    IF ~response.ok
    THEN IF response.status = 400
         THEN [status |-> "error", symbol |-> symbol,
               message |-> "Could not find historical data"]
         ELSE [status |-> "error", message |-> "Failed to fetch historical data"]
    ELSE
    LET data == response.json
    IN
    IF Len(data) = 0
    THEN [status |-> "error", message |-> "No price data available"]
    ELSE
    LET prices == ArrayOf([i \in 1..Len(data) |-> parseFloat(data[i].close)])
        currentPrice == prices[Len(prices)]
        sma7 == calculateSMA(prices, 7)
        sma25 == calculateSMA(prices, 25)
        sma99 == calculateSMA(prices, Min(99, Len(prices) - 1))
        rsi == calculateRSI(prices, RSI_DEFAULT_PERIOD)
        aboveSMA7 == Above(currentPrice, sma7)
        aboveSMA25 == Above(currentPrice, sma25)
        aboveSMA99 == Above(currentPrice, sma99)
        technicalIndicators ==
            [sma |-> [sma7 |-> sma7, sma25 |-> sma25, sma99 |-> sma99,
                      aboveSMA7 |-> aboveSMA7, aboveSMA25 |-> aboveSMA25,
                      aboveSMA99 |-> aboveSMA99],
             rsi |-> rsi,
             rsiSignal |-> rsiSignalOf(rsi),
             trend |-> trendOf(aboveSMA7, aboveSMA25, aboveSMA99)]
    IN
    [status |-> "success",
     symbol |-> symbol,
     currentPrice |-> currentPrice,
     technicalIndicators |->
        IF tf \in IntradayTimeframes
        THEN technicalIndicators @@ shortTermBlock(tf, prices, currentPrice)
        ELSE technicalIndicators]

----------------------------------------------------------------------------
(* Inputs of the indicator calculator *)

\* longest series and largest period of the direct calls of calculateRSI
MaxLen ==
    4

MaxPeriod ==
    3

\* longest tail that follows the flat prefix of a fetched series
MaxTail ==
    2

PriceInputs ==
    {Num(3), Num(6), Num(10), NaN}

RECURSIVE SeqsUpTo(_, _)
SeqsUpTo(S, k) ==
    IF k = 0 THEN {<<>>}
    ELSE LET shorter == SeqsUpTo(S, k - 1)
         IN  shorter \cup {Append(q, x) : q \in {r \in shorter : Len(r) = k - 1}, x \in S}

\* a close as Binance sends it: a decimal numeral with a fraction part
CloseStr(k) ==
    ToStr(k) \o <<".", "0", "0">>

CloseInputs ==
    {CloseStr(3), CloseStr(6), CloseStr(10)}

TailCloseInputs ==
    CloseInputs \cup {<<"n", "/", "a">>}

PrefixLens ==
    {0, 1, 6, 13, 24, 98}

Kline(close) ==
    [close |-> close]

\* closes within a tenth of a percent of 6.00
NearCloseInputs ==
    {<<"6", ".", "0", "0", "5">>, <<"5", ".", "9", "9", "5">>}

\* fetched series: a flat prefix followed by a short tail of closes, or by
\* one close that barely moves
KlineSeriesInputs ==
    {[i \in 1..(n + Len(tail)) |->
         IF i <= n THEN Kline(c) ELSE Kline(tail[i - n])] :
        n \in PrefixLens, c \in CloseInputs, tail \in SeqsUpTo(TailCloseInputs, MaxTail)}
    \cup {[i \in 1..(n + 1) |->
              IF i <= n THEN Kline(CloseStr(6)) ELSE Kline(c)] :
             n \in PrefixLens, c \in NearCloseInputs}

\* lines 351-357: the enum of the tool's input schema
TimeframeInputs ==
    {"1m", "5m", "15m", "hourly", "daily"}

KlinesResponseInputs ==
    {[ok |-> TRUE, status |-> 200, json |-> series] : series \in KlineSeriesInputs}
    \cup {[ok |-> FALSE, status |-> 400, json |-> <<>>],
          [ok |-> FALSE, status |-> 500, json |-> <<>>]}

----------------------------------------------------------------------------
(* Inputs of the sentiment normalizer *)

MaxFngValue ==
    110

FngValueInputs ==
    {ToStr(k) : k \in 0..MaxFngValue}
    \cup {<<>>, <<"-", "1">>, <<"+", "2", "6">>, <<" ", "7", "6">>,
          <<"2", "5", ".", "9">>, <<"4", "5", "x">>, <<"a", "b", "c">>}

FngEntry(value) ==
    [value |-> value, value_classification |-> "Neutral",
     timestamp |-> "0", time_until_update |-> "0"]

FngResponseInputs ==
    {[ok |-> TRUE, json |-> [name |-> "Fear and Greed Index",
                             data |-> <<FngEntry(v)>>]] : v \in FngValueInputs}
    \cup {[ok |-> TRUE, json |-> [name |-> "Fear and Greed Index", data |-> <<>>]],
          [ok |-> TRUE, json |-> [name |-> "Fear and Greed Index"]],
          [ok |-> FALSE, json |-> [name |-> "Fear and Greed Index"]]}

----------------------------------------------------------------------------
(* Inputs of the fusion step *)

S_extremely_bullish ==
    <<"e", "x", "t", "r", "e", "m", "e", "l", "y", " ", "b", "u", "l", "l", "i", "s", "h">>
S_sideways ==
    <<"s", "i", "d", "e", "w", "a", "y", "s">>

TrendInputs ==
    {Str(S_strongly_bullish), Str(S_bullish), Str(S_neutral), Str(S_bearish),
     Str(S_strongly_bearish), Str(S_sideways)}

RsiSignalInputs ==
    {Str(S_overbought), Str(S_oversold), Str(S_neutral)}

InterpretationInputs ==
    {Str(S_extremely_bearish_oversold), Str(S_bearish), Str(S_neutral),
     Str(S_bullish), Str(S_extremely_bullish_overbought),
     Str(S_extremely_bullish)}

SmaInput ==
    [sma7 |-> 10, sma25 |-> 10, sma99 |-> null,
     aboveSMA7 |-> FALSE, aboveSMA25 |-> FALSE, aboveSMA99 |-> TRUE]

FearGreedInput ==
    [value |-> 50, description |-> "Neutral", classification |-> "Neutral"]

\* the required properties of the two payloads (interfaces at lines 56-86)
TechnicalIndicatorsFields ==
    {"sma", "rsiSignal", "trend"}

MarketSentimentDataFields ==
    {"globalFearGreedIndex", "interpretation"}

TechnicalDataInputs ==
    {[symbol |-> "BTC", currentPrice |-> 10,
      technicalIndicators |->
          Omit([sma |-> SmaInput, rsi |-> 50, rsiSignal |-> r, trend |-> t], m)] :
        r \in RsiSignalInputs, t \in TrendInputs,
        m \in SUBSET TechnicalIndicatorsFields}
    \cup {[symbol |-> "BTC", currentPrice |-> 10]}

SentimentDataInputs ==
    {[symbol |-> "BTC",
      marketSentimentData |->
          Omit([globalFearGreedIndex |-> FearGreedInput, interpretation |-> i,
                timestamp |-> "0", timeUpdated |-> "0"], m)] :
        i \in InterpretationInputs, m \in SUBSET MarketSentimentDataFields}
    \cup {[symbol |-> "BTC"]}

----------------------------------------------------------------------------
(* The tradingRecommendation tool *)

FusionIdle ==
    /\ technicalData = undefined
    /\ sentimentData = undefined
    /\ recommendationResponse = NotCalled

SentimentIdle ==
    /\ fngResponse = undefined
    /\ marketSentimentResponse = NotCalled

RsiIdle ==
    /\ rsiPrices = <<>>
    /\ rsiPeriod = RSI_DEFAULT_PERIOD
    /\ rsiResult = NotCalled

AnalysisIdle ==
    /\ timeframe = "daily"
    /\ klinesResponse = undefined
    /\ analysisResponse = NotCalled

SmaIdle ==
    /\ smaPrices = <<>>
    /\ smaPeriod = 1
    /\ smaResult = NotCalled

EmaIdle ==
    /\ emaPrices = <<>>
    /\ emaPeriod = 1
    /\ emaResult = NotCalled

MacdIdle ==
    /\ macdPrices = <<>>
    /\ macdResult = NotCalled

\* package.json line 58: socket = null
NoSocket ==
    0

\* package.json line 60: reconnectTimeout = null
NoTimeout ==
    0

\* package.json lines 58-60 and 163: the service as constructed
WsIdle ==
    /\ socket = NoSocket
    /\ reconnectAttempts = 0
    /\ reconnectTimeout = NoTimeout
    /\ sockets = <<>>
    /\ timers = {}
    /\ timersCreated = 0
    /\ connectCalled = FALSE
    /\ disconnectCalled = FALSE
    /\ running = TRUE

Init ==
    /\ technicalData \in TechnicalDataInputs
    /\ sentimentData \in SentimentDataInputs
    /\ recommendationResponse = NotCalled
    /\ SentimentIdle
    /\ RsiIdle
    /\ AnalysisIdle
    /\ SmaIdle
    /\ EmaIdle
    /\ MacdIdle
    /\ WsIdle

\* lines 232-235: execute returns generateTradingRecommendation(...)
TradingRecommendationExecute ==
    /\ recommendationResponse = NotCalled
    /\ recommendationResponse' =
            generateTradingRecommendation(technicalData, sentimentData)
    /\ UNCHANGED <<technicalData, sentimentData>>
    /\ UNCHANGED <<sentimentVars, rsiVars, analysisVars>>
    /\ UNCHANGED <<smaVars, emaVars, macdVars>>
    /\ UNCHANGED wsVars

Next ==
    TradingRecommendationExecute

Spec ==
    Init /\ [][Next]_vars

----------------------------------------------------------------------------
(* The marketSentiment tool *)

InitSentiment ==
    /\ fngResponse \in FngResponseInputs
    /\ marketSentimentResponse = NotCalled
    /\ FusionIdle
    /\ RsiIdle
    /\ AnalysisIdle
    /\ SmaIdle
    /\ EmaIdle
    /\ MacdIdle
    /\ WsIdle

\* market-sentiment.ts lines 121-124: execute returns analyzeMarketSentiment(symbol)
MarketSentimentExecute ==
    /\ marketSentimentResponse = NotCalled
    /\ marketSentimentResponse' = analyzeMarketSentiment("bitcoin", fngResponse)
    /\ UNCHANGED fngResponse
    /\ UNCHANGED <<fusionVars, rsiVars, analysisVars>>
    /\ UNCHANGED <<smaVars, emaVars, macdVars>>
    /\ UNCHANGED wsVars

NextSentiment ==
    MarketSentimentExecute

SpecSentiment ==
    InitSentiment /\ [][NextSentiment]_vars

----------------------------------------------------------------------------
(* Direct calls of calculateRSI *)

InitRSI ==
    /\ rsiPrices \in SeqsUpTo(PriceInputs, MaxLen)
    /\ rsiPeriod \in 1..MaxPeriod
    /\ rsiResult = NotCalled
    /\ FusionIdle
    /\ SentimentIdle
    /\ AnalysisIdle
    /\ SmaIdle
    /\ EmaIdle
    /\ MacdIdle
    /\ WsIdle

\* technical-analysis.ts lines 110-134
CalculateRSI ==
    /\ rsiResult = NotCalled
    /\ rsiResult' = calculateRSI(rsiPrices, rsiPeriod)
    /\ UNCHANGED <<rsiPrices, rsiPeriod>>
    /\ UNCHANGED <<fusionVars, sentimentVars, analysisVars>>
    /\ UNCHANGED <<smaVars, emaVars, macdVars>>
    /\ UNCHANGED wsVars

NextRSI ==
    CalculateRSI

SpecRSI ==
    InitRSI /\ [][NextRSI]_vars

----------------------------------------------------------------------------
(* The technicalAnalysis tool *)

InitAnalysis ==
    /\ timeframe \in TimeframeInputs
    /\ klinesResponse \in KlinesResponseInputs
    /\ analysisResponse = NotCalled
    /\ FusionIdle
    /\ SentimentIdle
    /\ RsiIdle
    /\ SmaIdle
    /\ EmaIdle
    /\ MacdIdle
    /\ WsIdle

\* technical-analysis.ts lines 367-372: execute returns performTechnicalAnalysis(...)
TechnicalAnalysisExecute ==
    /\ analysisResponse = NotCalled
    /\ analysisResponse' = performTechnicalAnalysis("BTC", timeframe, klinesResponse)
    /\ UNCHANGED <<timeframe, klinesResponse>>
    /\ UNCHANGED <<fusionVars, sentimentVars, rsiVars>>
    /\ UNCHANGED <<smaVars, emaVars, macdVars>>
    /\ UNCHANGED wsVars

NextAnalysis ==
    TechnicalAnalysisExecute

SpecAnalysis ==
    InitAnalysis /\ [][NextAnalysis]_vars

----------------------------------------------------------------------------
(* Direct calls of calculateSMA *)

InitSMA ==
    /\ smaPrices \in SeqsUpTo(PriceInputs, MaxLen)
    /\ smaPeriod \in 1..MaxPeriod
    /\ smaResult = NotCalled
    /\ FusionIdle
    /\ SentimentIdle
    /\ RsiIdle
    /\ AnalysisIdle
    /\ EmaIdle
    /\ MacdIdle
    /\ WsIdle

\* technical-analysis.ts lines 65-72
CalculateSMA ==
    /\ smaResult = NotCalled
    /\ smaResult' = calculateSMA(smaPrices, smaPeriod)
    /\ UNCHANGED <<smaPrices, smaPeriod>>
    /\ UNCHANGED <<fusionVars, sentimentVars, rsiVars, analysisVars>>
    /\ UNCHANGED <<emaVars, macdVars>>
    /\ UNCHANGED wsVars

NextSMA ==
    CalculateSMA

SpecSMA ==
    InitSMA /\ [][NextSMA]_vars

----------------------------------------------------------------------------
(* Direct calls of calculateEMA.  The program passes the periods 9, 12, 21
   and 26; the calls of the model pass periods from 2 on, which have the
   same smoothing factor 0 < k < 1. *)

InitEMA ==
    /\ emaPrices \in SeqsUpTo(PriceInputs, MaxLen)
    /\ emaPeriod \in 2..MaxPeriod
    /\ emaResult = NotCalled
    /\ FusionIdle
    /\ SentimentIdle
    /\ RsiIdle
    /\ AnalysisIdle
    /\ SmaIdle
    /\ MacdIdle
    /\ WsIdle

\* technical-analysis.ts lines 74-87
CalculateEMA ==
    /\ emaResult = NotCalled
    /\ emaResult' = calculateEMA(emaPrices, emaPeriod)
    /\ UNCHANGED <<emaPrices, emaPeriod>>
    /\ UNCHANGED <<fusionVars, sentimentVars, rsiVars, analysisVars>>
    /\ UNCHANGED <<smaVars, macdVars>>
    /\ UNCHANGED wsVars

NextEMA ==
    CalculateEMA

SpecEMA ==
    InitEMA /\ [][NextEMA]_vars

----------------------------------------------------------------------------
(* Direct calls of calculateMACD *)

\* series of prices: a flat prefix followed by a short tail
MacdPricesInputs ==
    {ArrayOf([i \in 1..(n + Len(tail)) |-> IF i <= n THEN c ELSE tail[i - n]]) :
        n \in PrefixLens, c \in PriceInputs \ {NaN},
        tail \in SeqsUpTo(PriceInputs, MaxTail)}

InitMACD ==
    /\ macdPrices \in MacdPricesInputs
    /\ macdResult = NotCalled
    /\ FusionIdle
    /\ SentimentIdle
    /\ RsiIdle
    /\ AnalysisIdle
    /\ SmaIdle
    /\ EmaIdle
    /\ WsIdle

\* technical-analysis.ts lines 89-108
CalculateMACD ==
    /\ macdResult = NotCalled
    /\ macdResult' = calculateMACD(macdPrices)
    /\ UNCHANGED macdPrices
    /\ UNCHANGED <<fusionVars, sentimentVars, rsiVars, analysisVars>>
    /\ UNCHANGED <<smaVars, emaVars>>
    /\ UNCHANGED wsVars

NextMACD ==
    CalculateMACD

SpecMACD ==
    InitMACD /\ [][NextMACD]_vars

----------------------------------------------------------------------------
(* WebSocketService, package.json lines 49-189.  A socket goes through the
   ready states of the ws library: CONNECTING, OPEN, CLOSING, CLOSED.  The
   message handlers and send do not touch the connection state and are left
   out; the reconnect interval is abstracted to "the timer fires later". *)

\* line 55
MAX_RECONNECT_ATTEMPTS ==
    5

\* most sockets and timers created in a run
MaxSockets ==
    7

MaxTimers ==
    6

\* the test with > in place of >=
reconnectExhausted_Exclusive(attempts) ==
    attempts > MAX_RECONNECT_ATTEMPTS

\* line 132
reconnectExhausted(attempts) ==
    attempts >= MAX_RECONNECT_ATTEMPTS

\* lines 127-147.  pending is the set of pending timers when the method is
\* entered; clearTimeout of a handle that has fired or was cleared does nothing.
attemptReconnect(pending) ==
    LET cleared == IF reconnectTimeout # NoTimeout
                   THEN pending \ {reconnectTimeout} ELSE pending
    IN  IF reconnectExhausted(reconnectAttempts)
        THEN /\ timers' = cleared
             /\ UNCHANGED <<reconnectAttempts, reconnectTimeout, timersCreated>>
        ELSE /\ timersCreated < MaxTimers
             /\ reconnectAttempts' = reconnectAttempts + 1
             /\ timersCreated' = timersCreated + 1
             /\ reconnectTimeout' = timersCreated + 1
             /\ timers' = cleared \cup {timersCreated + 1}

\* lines 63-98: either new WebSocket(WS_URL) returns a socket, which gets the
\* four handlers, or it throws and the catch block calls attemptReconnect
connect(pending) ==
    \/ /\ Len(sockets) < MaxSockets
       /\ sockets' = Append(sockets, "CONNECTING")
       /\ socket' = Len(sockets) + 1
       /\ timers' = pending
       /\ UNCHANGED <<reconnectAttempts, reconnectTimeout, timersCreated>>
    \/ /\ attemptReconnect(pending)
       /\ UNCHANGED <<socket, sockets>>

\* lines 149-160
disconnect ==
    /\ timers' = IF reconnectTimeout # NoTimeout
                 THEN timers \ {reconnectTimeout} ELSE timers
    /\ reconnectTimeout' = NoTimeout
    /\ sockets' = IF socket # NoSocket /\ sockets[socket] \in {"CONNECTING", "OPEN"}
                  THEN [sockets EXCEPT ![socket] = "CLOSING"]
                  ELSE sockets
    /\ socket' = NoSocket
    /\ UNCHANGED <<reconnectAttempts, timersCreated>>

otherVars ==
    <<fusionVars, sentimentVars, rsiVars, analysisVars, smaVars, emaVars, macdVars>>

InitWebSocket ==
    /\ WsIdle
    /\ FusionIdle
    /\ SentimentIdle
    /\ RsiIdle
    /\ AnalysisIdle
    /\ SmaIdle
    /\ EmaIdle
    /\ MacdIdle

\* the agent's start-up calls wsService.connect() once
MainConnect ==
    /\ running
    /\ ~connectCalled
    /\ connectCalled' = TRUE
    /\ connect(timers)
    /\ UNCHANGED <<disconnectCalled, running, otherVars>>

\* lines 143-145: a reconnect timer fires and its callback calls connect
TimerFires ==
    \E t \in timers :
        /\ running
        /\ connect(timers \ {t})
        /\ UNCHANGED <<connectCalled, disconnectCalled, running, otherVars>>

\* lines 67-71: onopen
OnOpen ==
    \E i \in DOMAIN sockets :
        /\ running
        /\ sockets[i] = "CONNECTING"
        /\ sockets' = [sockets EXCEPT ![i] = "OPEN"]
        /\ reconnectAttempts' = 0
        /\ UNCHANGED <<socket, reconnectTimeout, timers, timersCreated,
                       connectCalled, disconnectCalled, running, otherVars>>

\* lines 82-85: onerror; the library closes the socket after the event
OnError ==
    \E i \in DOMAIN sockets :
        /\ running
        /\ sockets[i] \in {"CONNECTING", "OPEN"}
        /\ sockets' = [sockets EXCEPT ![i] = "CLOSING"]
        /\ UNCHANGED <<socket, reconnectAttempts, reconnectTimeout, timers,
                       timersCreated, connectCalled, disconnectCalled, running,
                       otherVars>>

\* lines 87-90: onclose, of a socket the peer closed or that was closing
OnClose ==
    \E i \in DOMAIN sockets :
        /\ running
        /\ sockets[i] \in {"OPEN", "CLOSING"}
        /\ sockets' = [sockets EXCEPT ![i] = "CLOSED"]
        /\ attemptReconnect(timers)
        /\ UNCHANGED <<socket, connectCalled, disconnectCalled, running, otherVars>>

\* lines 149-160 and 177-180: disconnect called while the process goes on.
\* The start-up has called connect by the time any handler can run.
Disconnect ==
    /\ running
    /\ connectCalled
    /\ disconnect
    /\ disconnectCalled' = TRUE
    /\ UNCHANGED <<connectCalled, running, otherVars>>

\* lines 165-175 and 183-187: a signal or an uncaught exception; the handler
\* calls disconnect and then process.exit
Terminate ==
    /\ running
    /\ connectCalled
    /\ disconnect
    /\ disconnectCalled' = TRUE
    /\ running' = FALSE
    /\ UNCHANGED <<connectCalled, otherVars>>

NextWebSocket ==
    \/ MainConnect
    \/ TimerFires
    \/ OnOpen
    \/ OnError
    \/ OnClose
    \/ Disconnect
    \/ Terminate

SpecWebSocket ==
    InitWebSocket /\ [][NextWebSocket]_vars

----------------------------------------------------------------------------
(* Properties of the fusion step *)

Success ==
    recommendationResponse.status = "success"

Rec ==
    recommendationResponse.recommendation

InTrend ==
    Get(Get(technicalData, "technicalIndicators"), "trend")

InRsiSignal ==
    Get(Get(technicalData, "technicalIndicators"), "rsiSignal")

InInterpretation ==
    Get(Get(sentimentData, "marketSentimentData"), "interpretation")

\* v is a string that contains sub
Carries(v, sub) ==
    v # undefined /\ includes(v.chars, sub)

\* C1: whenever a success result is returned, recommendation.signal equals
\* recommendation.technicalAnalysisSignal, whatever the sentiment direction;
\* the final direction is the one the trend and the RSI signal alone give.
C1_TieBreak ==
    Success =>
        /\ Rec.signal = Rec.technicalAnalysisSignal
        /\ \A sd \in SentimentDataInputs :
              LET r == generateTradingRecommendation(technicalData, sd)
              IN  r.status = "success" => r.recommendation.signal = Rec.signal

C1_Witness ==
    /\ Success
    /\ Rec.technicalAnalysisSignal # Rec.marketSentimentSignal
    /\ Rec.signal = Rec.technicalAnalysisSignal

\* C2: confidence is low whenever the technical and sentiment directions
\* disagree, high exactly when they agree and the trend carries "strongly" or
\* the sentiment carries "extremely", and medium in every remaining case.
C2_Confidence ==
    Success =>
        LET agree == Rec.technicalAnalysisSignal = Rec.marketSentimentSignal
            qualified == Carries(InTrend, S_strongly)
                         \/ Carries(InInterpretation, S_extremely)
        IN  /\ ~agree => Rec.confidenceLevel = "low"
            /\ Rec.confidenceLevel = "high" <=> (agree /\ qualified)
            /\ (agree /\ ~qualified) => Rec.confidenceLevel = "medium"

C2_Witness ==
    /\ Success
    /\ Rec.confidenceLevel = "high"
    /\ ~Carries(InTrend, S_strongly)
    /\ Rec.technicalAnalysisSignal = "SHORT"

\* C3 as stated: a neutral trend gives technicalAnalysisSignal (and the final
\* signal) LONG for every momentum signal and every sentiment label.
C3_NeutralNeverShort ==
    (Success /\ InTrend = Str(S_neutral)) =>
        /\ Rec.technicalAnalysisSignal = "LONG"
        /\ Rec.signal = "LONG"

\* C3 amended: a neutral trend gives SHORT exactly when the momentum signal
\* is overbought (the override flips the LONG default) and LONG for every
\* other momentum signal, for every sentiment label.
C3_NeutralShortOnlyIfOverbought ==
    (Success /\ InTrend = Str(S_neutral)) =>
        /\ Rec.technicalAnalysisSignal = "SHORT" <=> InRsiSignal = Str(S_overbought)
        /\ Rec.technicalAnalysisSignal \in {"LONG", "SHORT"}
        /\ Rec.signal = Rec.technicalAnalysisSignal

C3_Witness ==
    /\ Success
    /\ InTrend = Str(S_neutral)
    /\ InRsiSignal = Str(S_overbought)
    /\ Rec.technicalAnalysisSignal = "SHORT"

\* C4: base direction LONG for bullish / strongly bullish and SHORT for
\* bearish / strongly bearish; overbought on a LONG base gives SHORT,
\* oversold on a SHORT base gives LONG, otherwise the base is kept.
C4_TechnicalDirection ==
    (Success /\ InTrend \in {Str(S_bullish), Str(S_strongly_bullish),
                             Str(S_bearish), Str(S_strongly_bearish)}) =>
        LET base == IF InTrend \in {Str(S_bullish), Str(S_strongly_bullish)}
                    THEN "LONG" ELSE "SHORT"
            overbought == InRsiSignal = Str(S_overbought)
            oversold == InRsiSignal = Str(S_oversold)
        IN  /\ (overbought /\ base = "LONG") => Rec.technicalAnalysisSignal = "SHORT"
            /\ (oversold /\ base = "SHORT") => Rec.technicalAnalysisSignal = "LONG"
            /\ ~((overbought /\ base = "LONG") \/ (oversold /\ base = "SHORT"))
                  => Rec.technicalAnalysisSignal = base

C4_Witness ==
    /\ Success
    /\ InTrend = Str(S_bearish)
    /\ InRsiSignal = Str(S_oversold)
    /\ Rec.technicalAnalysisSignal = "LONG"

\* C5: recommendedTimeframe is long-term iff the final direction is LONG and
\* the trend is strongly bullish, short-term iff the final direction is SHORT
\* and the trend is strongly bearish, and medium-term otherwise.
C5_Horizon ==
    Success =>
        /\ Rec.recommendedTimeframe = "long-term"
              <=> (Rec.signal = "LONG" /\ InTrend = Str(S_strongly_bullish))
        /\ Rec.recommendedTimeframe = "short-term"
              <=> (Rec.signal = "SHORT" /\ InTrend = Str(S_strongly_bearish))
        /\ Rec.recommendedTimeframe \in {"long-term", "short-term", "medium-term"}

C5_Witness ==
    /\ Success
    /\ InTrend = Str(S_strongly_bullish)
    /\ InRsiSignal = Str(S_overbought)
    /\ Rec.signal = "SHORT"
    /\ Rec.recommendedTimeframe = "medium-term"

\* C7 as stated: whenever a required field of either payload is missing the
\* result has status error and carries no recommendation.
Incomplete ==
    \/ "technicalIndicators" \notin DOMAIN technicalData
    \/ "marketSentimentData" \notin DOMAIN sentimentData
    \/ ~(TechnicalIndicatorsFields \subseteq DOMAIN technicalData.technicalIndicators)
    \/ ~(MarketSentimentDataFields \subseteq DOMAIN sentimentData.marketSentimentData)

C7_MalformedIsError ==
    (recommendationResponse # NotCalled /\ Incomplete) =>
        /\ recommendationResponse.status = "error"
        /\ "recommendation" \notin DOMAIN recommendationResponse

\* the interpretation strings analyzeMarketSentiment can emit
EmittedInterpretations ==
    {analyzeMarketSentiment("bitcoin", r).marketSentimentData.interpretation :
        r \in {x \in FngResponseInputs :
                 analyzeMarketSentiment("bitcoin", x).status = "success"}}

\* C6: for the five interpretation strings analyzeMarketSentiment emits,
\* bullish gives LONG, bearish gives SHORT, extremely bullish is flipped to
\* SHORT, extremely bearish is flipped to LONG and neutral gives LONG.
C6_SentimentDirection ==
    /\ EmittedInterpretations =
          {Str(S_bullish), Str(S_bearish), Str(S_neutral),
           Str(S_extremely_bullish_overbought), Str(S_extremely_bearish_oversold)}
    /\ (Success /\ InInterpretation \in EmittedInterpretations) =>
          Rec.marketSentimentSignal =
             CASE InInterpretation = Str(S_bullish) -> "LONG"
               [] InInterpretation = Str(S_bearish) -> "SHORT"
               [] InInterpretation = Str(S_extremely_bullish_overbought) -> "SHORT"
               [] InInterpretation = Str(S_extremely_bearish_oversold) -> "LONG"
               [] InInterpretation = Str(S_neutral) -> "LONG"

C6_Witness ==
    /\ Success
    /\ InInterpretation = Str(S_extremely_bearish_oversold)
    /\ Rec.marketSentimentSignal = "LONG"

----------------------------------------------------------------------------
(* Properties of the sentiment normalizer *)

SentimentSuccess ==
    marketSentimentResponse.status = "success"

FngData ==
    marketSentimentResponse.marketSentimentData

\* the index sent by the API is the decimal numeral of k
FngValueIs(k) ==
    /\ fngResponse.ok
    /\ "data" \in DOMAIN fngResponse.json
    /\ Len(fngResponse.json.data) > 0
    /\ fngResponse.json.data[1].value = ToStr(k)

\* C8: every integer index in 0..100 falls in exactly one band, 0..25
\* extremely bearish, 26..45 bearish, 46..55 neutral, 56..75 bullish,
\* 76..100 extremely bullish, and the interpretation is determined by the
\* band label alone.
C8_Bands ==
    \A k \in 0..100 :
        (marketSentimentResponse # NotCalled /\ FngValueIs(k)) =>
            /\ SentimentSuccess
            /\ FngData.globalFearGreedIndex.value = Num(k)
            /\ FngData.globalFearGreedIndex.description =
                   CASE k \in 0..25 -> "Extreme Fear"
                     [] k \in 26..45 -> "Fear"
                     [] k \in 46..55 -> "Neutral"
                     [] k \in 56..75 -> "Greed"
                     [] k \in 76..100 -> "Extreme Greed"
            /\ FngData.interpretation =
                   CASE FngData.globalFearGreedIndex.description = "Extreme Fear"
                            -> Str(S_extremely_bearish_oversold)
                     [] FngData.globalFearGreedIndex.description = "Fear"
                            -> Str(S_bearish)
                     [] FngData.globalFearGreedIndex.description = "Neutral"
                            -> Str(S_neutral)
                     [] FngData.globalFearGreedIndex.description = "Greed"
                            -> Str(S_bullish)
                     [] FngData.globalFearGreedIndex.description = "Extreme Greed"
                            -> Str(S_extremely_bullish_overbought)

C8_Witness ==
    /\ SentimentSuccess
    /\ FngValueIs(25)
    /\ FngData.interpretation = Str(S_extremely_bearish_oversold)

----------------------------------------------------------------------------
(* Properties of the indicator calculator and the trend classifier *)

AnalysisSuccess ==
    analysisResponse.status = "success"

Indicators ==
    analysisResponse.technicalIndicators

\* C9 as stated: an oscillator value <= 30 is oversold, a value >= 70 is
\* overbought, every other value and insufficient-data is neutral.
C9_InclusiveThresholds ==
    AnalysisSuccess =>
        LET rsi == Indicators.rsi
            low == rsi # null /\ Le(rsi, Num(30))
            high == rsi # null /\ Ge(rsi, Num(70))
        IN  /\ low => Indicators.rsiSignal = Str(S_oversold)
            /\ high => Indicators.rsiSignal = Str(S_overbought)
            /\ (~low /\ ~high) => Indicators.rsiSignal = Str(S_neutral)

\* C9 amended: an oscillator value strictly below 30 is oversold, a value
\* strictly above 70 is overbought, and every other value, exactly 30 and
\* exactly 70 included, as well as insufficient-data, is neutral.
C9_StrictThresholds ==
    AnalysisSuccess =>
        LET rsi == Indicators.rsi
            low == rsi # null /\ Lt(rsi, Num(30))
            high == rsi # null /\ Gt(rsi, Num(70))
        IN  /\ low => Indicators.rsiSignal = Str(S_oversold)
            /\ high => Indicators.rsiSignal = Str(S_overbought)
            /\ (~low /\ ~high) => Indicators.rsiSignal = Str(S_neutral)

C9_Witness ==
    /\ AnalysisSuccess
    /\ Indicators.rsi = Num(30)
    /\ Indicators.rsiSignal = Str(S_neutral)

\* no close of the last period deltas of the call is below its predecessor
NoLossInWindow ==
    \A i \in (Len(rsiPrices) - rsiPeriod)..(Len(rsiPrices) - 1) :
        ~Lt(rsiPrices[i + 1], rsiPrices[i])

\* C10: calculateRSI returns null iff the series has period or fewer points;
\* otherwise the result lies in [0, 100], and it is exactly 100 (classified
\* overbought) whenever the losses over the last period deltas sum to zero,
\* a completely flat window included.
C10_RsiRange ==
    rsiResult # NotCalled =>
        /\ rsiResult = null <=> Len(rsiPrices) <= rsiPeriod
        /\ rsiResult # null =>
              /\ IsFinite(rsiResult)
              /\ Ge(rsiResult, Num(0))
              /\ Le(rsiResult, Num(100))
        /\ (Len(rsiPrices) > rsiPeriod /\ NoLossInWindow) =>
              /\ rsiResult = Num(100)
              /\ rsiSignalOf(rsiResult) = Str(S_overbought)

C10_Witness ==
    /\ rsiResult = Num(100)
    /\ Len(rsiPrices) > rsiPeriod
    /\ \A i \in 1..Len(rsiPrices) : rsiPrices[i] = Num(10)

----------------------------------------------------------------------------
(* Properties of the moving averages *)

\* the last n elements of a series that has at least n
LastCloses(prices, n) ==
    SubSeq(prices, Len(prices) - n + 1, Len(prices))

\* C11: calculateSMA(prices, P) with P >= 1 is null for a series of fewer
\* than P closes; for a series of at least P closes it is the mean of
\* exactly the last P closes, whatever the older closes are.
C11_SmaLastPeriod ==
    smaResult # NotCalled =>
        /\ Len(smaPrices) < smaPeriod => smaResult = null
        /\ Len(smaPrices) >= smaPeriod =>
            LET last == LastCloses(smaPrices, smaPeriod)
            IN  /\ smaResult = NumDiv(Sum(last), Num(smaPeriod))
                /\ \A older \in SeqsUpTo(PriceInputs, MaxLen - smaPeriod) :
                       calculateSMA(older \o last, smaPeriod) = smaResult

\* a call on a series longer than the period whose oldest close is not the mean
C11_Witness ==
    /\ smaResult # NotCalled
    /\ Len(smaPrices) > smaPeriod
    /\ smaPeriod > 1
    /\ smaResult # null
    /\ IsFinite(smaResult)
    /\ IsFinite(smaPrices[1])
    /\ smaPrices[1] # smaResult

Closes ==
    klinesResponse.json

\* C12 as stated: the sma99 that performTechnicalAnalysis reports is null
\* whenever the fetched series has fewer than 99 closes.
C12_Sma99NullWhenShort ==
    (AnalysisSuccess /\ Len(Closes) < 99) => Indicators.sma.sma99 = null

\* the closes of the fetched series as line 198 parses them
ParsedCloses ==
    ArrayOf([i \in 1..Len(Closes) |-> parseFloat(Closes[i].close)])

FiniteCloses ==
    \A i \in 1..Len(Closes) : IsFinite(parseFloat(Closes[i].close))

FiniteOrNull(x) ==
    x = null \/ IsFinite(x)

\* C13 as stated: for every non-empty series of finite closes, a single
\* close included, each indicator value of the result (sma7, sma25, sma99,
\* rsi and, for the intraday timeframes, sma5, sma10, ema9, ema21) is a
\* finite number or null, never NaN.
C13_IndicatorsFiniteOrNull ==
    (AnalysisSuccess /\ FiniteCloses) =>
        /\ FiniteOrNull(Indicators.sma.sma7)
        /\ FiniteOrNull(Indicators.sma.sma25)
        /\ FiniteOrNull(Indicators.sma.sma99)
        /\ FiniteOrNull(Indicators.rsi)
        /\ timeframe \in IntradayTimeframes =>
            /\ FiniteOrNull(Indicators.shortTerm.sma5)
            /\ FiniteOrNull(Indicators.shortTerm.sma10)
            /\ FiniteOrNull(Indicators.shortTerm.ema9)
            /\ FiniteOrNull(Indicators.shortTerm.ema21)

CurrentPrice ==
    analysisResponse.currentPrice

\* whether the current price exceeds an average, a missing average counting as 0
ExceedsAverage(average) ==
    IF average = null THEN Gt(CurrentPrice, Num(0)) ELSE Gt(CurrentPrice, average)

\* C14: each above flag of the result equals currentPrice > average with a
\* missing average compared as 0 (so the flag is true for a positive price
\* whose average is missing), and the trend label is the first match of:
\* all three flags true, strongly bullish; the 7 and 25 flags true, bullish;
\* all three false, strongly bearish; the 7 and 25 flags false, bearish;
\* otherwise neutral.
C14_PositionTrend ==
    AnalysisSuccess =>
        LET sma == Indicators.sma
            a7 == sma.aboveSMA7
            a25 == sma.aboveSMA25
            a99 == sma.aboveSMA99
        IN  /\ a7 = ExceedsAverage(sma.sma7)
            /\ a25 = ExceedsAverage(sma.sma25)
            /\ a99 = ExceedsAverage(sma.sma99)
            /\ (sma.sma7 = null /\ Gt(CurrentPrice, Num(0))) => a7
            /\ (sma.sma25 = null /\ Gt(CurrentPrice, Num(0))) => a25
            /\ (sma.sma99 = null /\ Gt(CurrentPrice, Num(0))) => a99
            /\ (a7 /\ a25 /\ a99) => Indicators.trend = Str(S_strongly_bullish)
            /\ (a7 /\ a25 /\ ~a99) => Indicators.trend = Str(S_bullish)
            /\ (~a7 /\ ~a25 /\ ~a99) => Indicators.trend = Str(S_strongly_bearish)
            /\ (~a7 /\ ~a25 /\ a99) => Indicators.trend = Str(S_bearish)
            /\ (a7 # a25) => Indicators.trend = Str(S_neutral)

\* a short series: the 25-close average is missing, the price is above 0 and
\* below the 7-close average, and the label is neutral
C14_Witness ==
    /\ AnalysisSuccess
    /\ Indicators.sma.sma25 = null
    /\ Indicators.sma.sma7 # null
    /\ Indicators.sma.aboveSMA25
    /\ ~Indicators.sma.aboveSMA7
    /\ Indicators.trend = Str(S_neutral)

\* C15 as stated: for each of the timeframes 1m, 5m, 15m and hourly the
\* recommendation is LONG when the short-term trend and the MACD
\* classification are both bullish, or the 7-period oscillator is oversold
\* while the short-term trend is bullish; SHORT in the mirrored bearish and
\* overbought cases; neutral otherwise.  For daily the result has neither a
\* recommendation nor a short-term block.
C15_IntradayRecommendation ==
    AnalysisSuccess =>
        IF timeframe \in {"1m", "5m", "15m", "hourly"}
        THEN LET st == Indicators.shortTerm
                 rsi7 == calculateRSI(ParsedCloses, 7)
                 trendUp == includes(st.shortTermTrend.chars, S_bullish)
                 trendDown == includes(st.shortTermTrend.chars, S_bearish)
                 macdUp == includes(st.macdSignal.chars, S_bullish)
                 macdDown == includes(st.macdSignal.chars, S_bearish)
                 oversold == rsi7 # null /\ Lt(rsi7, Num(30))
                 overbought == rsi7 # null /\ Gt(rsi7, Num(70))
                 long == (trendUp /\ macdUp) \/ (oversold /\ trendUp)
                 short == (trendDown /\ macdDown) \/ (overbought /\ trendDown)
             IN  Indicators.recommendation =
                    IF long THEN "LONG" ELSE IF short THEN "SHORT" ELSE "neutral"
        ELSE /\ "shortTerm" \notin DOMAIN Indicators
             /\ "recommendation" \notin DOMAIN Indicators

----------------------------------------------------------------------------
(* Properties of the MACD *)

\* C16: for a series of fewer than 26 closes calculateMACD returns null for
\* macd, signal and histogram, and the macdSignal of the result is neutral
\* whatever the closes are.
C16_ShortSeriesMacdNeutral ==
    (AnalysisSuccess /\ timeframe \in IntradayTimeframes /\ Len(Closes) < 26) =>
        /\ calculateMACD(ParsedCloses) =
              [macd |-> null, signal |-> null, histogram |-> null]
        /\ Indicators.shortTerm.macdSignal = Str(S_neutral)

\* 25 closes that end with a rise: the short-term trend is bullish and the
\* MACD classification is neutral
C16_Witness ==
    /\ AnalysisSuccess
    /\ timeframe \in IntradayTimeframes
    /\ Len(Closes) = 25
    /\ FiniteCloses
    /\ includes(Indicators.shortTerm.shortTermTrend.chars, S_bullish)
    /\ Indicators.shortTerm.macdSignal = Str(S_neutral)

\* C17: when macd, signal and histogram are all present, the MACD
\* classification is neutral when the absolute histogram does not exceed
\* 0.01% of the current price; otherwise a positive histogram gives strongly
\* bullish if the main line is positive and bullish if not, and a negative
\* histogram gives strongly bearish if the main line is negative and bearish
\* if not; a strongly label occurs only where the two signs agree.
C17_MacdClassification ==
    (AnalysisSuccess /\ timeframe \in IntradayTimeframes) =>
        LET m == calculateMACD(ParsedCloses)
            label == Indicators.shortTerm.macdSignal
            floor == NumDiv(CurrentPrice, Num(10000))
            exceeds == Gt(NumAbs(m.histogram), floor)
        IN  (m.macd # null /\ m.signal # null /\ m.histogram # null) =>
                /\ ~exceeds => label = Str(S_neutral)
                /\ (exceeds /\ Gt(m.histogram, Num(0))) =>
                      label = IF Gt(m.macd, Num(0))
                              THEN Str(S_strongly_bullish) ELSE Str(S_bullish)
                /\ (exceeds /\ Lt(m.histogram, Num(0))) =>
                      label = IF Lt(m.macd, Num(0))
                              THEN Str(S_strongly_bearish) ELSE Str(S_bearish)
                /\ label = Str(S_strongly_bullish) =>
                      Gt(m.histogram, Num(0)) /\ Gt(m.macd, Num(0))
                /\ label = Str(S_strongly_bearish) =>
                      Lt(m.histogram, Num(0)) /\ Lt(m.macd, Num(0))

\* a histogram that is negative and within 0.01% of the price: neutral
C17_Witness ==
    /\ AnalysisSuccess
    /\ timeframe \in IntradayTimeframes
    /\ Len(Closes) >= 26
    /\ LET m == calculateMACD(ParsedCloses)
       IN  /\ Lt(m.histogram, Num(0))
           /\ Lt(m.macd, Num(0))
           /\ ~Gt(NumAbs(m.histogram), NumDiv(CurrentPrice, Num(10000)))
    /\ Indicators.shortTerm.macdSignal = Str(S_neutral)

----------------------------------------------------------------------------
(* Properties of the exponential moving average *)

RECURSIVE NumPow(_, _)
NumPow(a, n) ==
    IF n = 0 THEN Num(1) ELSE NumMul(a, NumPow(a, n - 1))

\* what the recurrence ema = price * k + ema * (1 - k), seeded with the first
\* close and applied to every later close, amounts to
EmaOfWholeSeries(prices, k) ==
    LET n == Len(prices)
        weighted ==
            [i \in 1..n |->
                NumMul(prices[i],
                       IF i = 1 THEN NumPow(NumSub(Num(1), k), n - 1)
                       ELSE NumMul(k, NumPow(NumSub(Num(1), k), n - i)))]
    IN  Sum(ArrayOf(weighted))

\* C18: calculateEMA(prices, P) is null iff the series has fewer than P
\* closes; otherwise it is the value of the recurrence with k = 2 / (P + 1)
\* seeded with the first close and run over the whole series, so that for a
\* series of finite closes longer than P the result changes with the closes
\* older than the last P.
C18_EmaWholeSeries ==
    emaResult # NotCalled =>
        /\ emaResult = null <=> Len(emaPrices) < emaPeriod
        /\ Len(emaPrices) >= emaPeriod =>
              emaResult = EmaOfWholeSeries(emaPrices, NumDiv(Num(2), Num(emaPeriod + 1)))
        /\ (Len(emaPrices) > emaPeriod
              /\ \A i \in 1..Len(emaPrices) : IsFinite(emaPrices[i])) =>
              \E older \in SeqsUpTo(PriceInputs, MaxLen - emaPeriod) :
                  /\ Len(older) = Len(emaPrices) - emaPeriod
                  /\ calculateEMA(older \o LastCloses(emaPrices, emaPeriod), emaPeriod)
                        # emaResult

\* a call on a series longer than the period whose result is not the
\* recurrence run over the last P closes alone
C18_Witness ==
    /\ emaResult # NotCalled
    /\ emaResult # null
    /\ Len(emaPrices) > emaPeriod
    /\ IsFinite(emaResult)
    /\ emaResult # EmaOfWholeSeries(LastCloses(emaPrices, emaPeriod),
                                    NumDiv(Num(2), Num(emaPeriod + 1)))

\* eight zeros followed by the main-line value
SignalSeries(macd) ==
    <<Num(0), Num(0), Num(0), Num(0), Num(0), Num(0), Num(0), Num(0), macd>>

\* C19: on a series of at least 26 closes the main line of calculateMACD is
\* EMA12 - EMA26 of the full series; the signal line is the 9-period EMA of
\* eight zeros followed by the main-line value, so it is never null and is 0
\* only when the main line is 0; and the histogram is main line - signal.
C19_MacdLines ==
    (macdResult # NotCalled /\ Len(macdPrices) >= 26) =>
        /\ macdResult.macd =
              NumSub(calculateEMA(macdPrices, 12), calculateEMA(macdPrices, 26))
        /\ macdResult.signal # null
        /\ macdResult.signal =
              EmaOfWholeSeries(SignalSeries(macdResult.macd), NumDiv(Num(2), Num(10)))
        /\ macdResult.signal = Num(0) => macdResult.macd = Num(0)
        /\ macdResult.histogram = NumSub(macdResult.macd, macdResult.signal)

\* a call whose main line is a finite number other than 0
C19_Witness ==
    /\ macdResult # NotCalled
    /\ Len(macdPrices) >= 26
    /\ IsFinite(macdResult.macd)
    /\ macdResult.macd # Num(0)
    /\ macdResult.signal = NumDiv(macdResult.macd, Num(5))
    /\ macdResult.histogram = NumMul(macdResult.macd, NumDiv(Num(4), Num(5)))

----------------------------------------------------------------------------
(* Properties of the WebSocket service *)

\* C20: reconnectAttempts is always between 0 and MAX_RECONNECT_ATTEMPTS; a
\* socket that opens resets it to 0; at most one reconnect timer is pending
\* at a time; and once five reconnects have been scheduled, no other timer
\* is scheduled for as long as no socket opens.
C20_BoundedRetry ==
    /\ [](/\ reconnectAttempts \in 0..MAX_RECONNECT_ATTEMPTS
          /\ Cardinality(timers) <= 1)
    /\ [][(\E i \in DOMAIN sockets : sockets[i] = "CONNECTING" /\ sockets'[i] = "OPEN")
             => reconnectAttempts' = 0]_vars
    /\ [][(reconnectAttempts = MAX_RECONNECT_ATTEMPTS /\ reconnectAttempts' # 0)
             => (timers' \subseteq timers /\ timersCreated' = timersCreated)]_vars

\* five reconnects in a row have failed: every socket is closed, no timer is
\* pending, and the process is still running with timers left to create
C20_Witness ==
    /\ running
    /\ reconnectAttempts = MAX_RECONNECT_ATTEMPTS
    /\ timers = {}
    /\ Len(sockets) >= MAX_RECONNECT_ATTEMPTS + 1
    /\ \A i \in DOMAIN sockets : sockets[i] = "CLOSED"
    /\ timersCreated < MaxTimers

\* C21 as stated: once disconnect has been called, in every later state no
\* reconnect timer is pending, reconnectAttempts is not incremented and no
\* new socket is opened, also when the close event of the socket that
\* disconnect closed is delivered afterwards.
C21_DisconnectFinal ==
    /\ [](disconnectCalled => timers = {})
    /\ [][disconnectCalled =>
            /\ reconnectAttempts' <= reconnectAttempts
            /\ Len(sockets') = Len(sockets)]_vars

----------------------------------------------------------------------------
(* Reachable MACD labels *)

\* C22: for every fetched series of at least 26 closes the histogram of
\* calculateMACD is four fifths of the main line and has its sign, and the
\* macdSignal of every result of performTechnicalAnalysis is strongly
\* bullish, strongly bearish or neutral, never plain bullish or bearish.
C22_PlainMacdLabelsUnreachable ==
    (AnalysisSuccess /\ timeframe \in IntradayTimeframes) =>
        /\ Indicators.shortTerm.macdSignal \in
              {Str(S_strongly_bullish), Str(S_strongly_bearish), Str(S_neutral)}
        /\ Len(Closes) >= 26 =>
              LET m == calculateMACD(ParsedCloses)
              IN  /\ m.histogram = NumMul(m.macd, NumDiv(Num(4), Num(5)))
                  /\ Gt(m.histogram, Num(0)) <=> Gt(m.macd, Num(0))
                  /\ Lt(m.histogram, Num(0)) <=> Lt(m.macd, Num(0))

\* a series of at least 26 closes that ends with a fall: main line and
\* histogram are negative and the label is strongly bearish
C22_Witness ==
    /\ AnalysisSuccess
    /\ timeframe \in IntradayTimeframes
    /\ Len(Closes) >= 26
    /\ Lt(calculateMACD(ParsedCloses).macd, Num(0))
    /\ Lt(calculateMACD(ParsedCloses).histogram, Num(0))
    /\ Indicators.shortTerm.macdSignal = Str(S_strongly_bearish)

============================================================================
